---- MODULE Spec2Model ----
(***************************************************************************)
(* internetarchive.utils: the two stateful helpers of the module,          *)
(*   IdentifierListAsItems  (utils.py:101-128), a lazily loaded list of    *)
(*                          Items addressed by index, slice or identifier, *)
(*   IterableToFileAdapter  (utils.py:89-98), a read()/len() face on an    *)
(*                          iterator of chunks, fed e.g. by                *)
(*                          chunk_generator (utils.py:65-70).              *)
(* Slots and positions are 1-based here (Python index i is slot i+1).      *)
(***************************************************************************)
EXTENDS Integers, Sequences, FiniteSets, TLC

\* ------------------------------------------------------------------ bounds
MaxKeys == 2        \* longest identifier list given to the constructor
MaxChunks == 2      \* longest list of chunks given to the adapter
MaxData == 3        \* longest file handed to chunk_generator
MaxReads == 4       \* longest run of read() calls followed
MaxDeclared == 2    \* largest declared size given to the adapter

\* ------------------------------------------------------------ value domains
Names == {"a", "b"}                  \* identifiers that may be keys
LookupNames == Names \cup {"z"}      \* names asked for by attribute
None == "None"                       \* Python's None, the unset slot
ItemVals == {"item1"}                \* objects session.get_item may return
RetVals == ItemVals \cup {None}
ErrKinds == {"ValueError", "IOError"}
Outcomes == RetVals \cup ErrKinds    \* what one session.get_item call does
NoErr == "none"
NotYet == "notyet"
Bytes == {0, 1}

IntArgs == (0 - (MaxKeys + 1)) .. (MaxKeys + 1)   \* integer indices tried
OptArg(S) == {[none |-> TRUE, v |-> 0]} \cup {[none |-> FALSE, v |-> k] : k \in S}
SliceArgs == {-4, -2, -1, 0, 1, 2, 4}              \* slice starts and stops tried
SliceSteps == {-2, -1, 0, 1, 2}                    \* slice steps tried
Slices == [start : OptArg(SliceArgs), stop : OptArg(SliceArgs), step : OptArg(SliceSteps)]

SeqsUpTo(S, n) == UNION {[1..k -> S] : k \in 0..n}
Min(a, b) == IF a < b THEN a ELSE b
Max(a, b) == IF a > b THEN a ELSE b

VARIABLES
  ctorArg,    \* the id_list_or_single_id the wrapper was built with
  ids,        \* self.ids
  items,      \* self._items
  got,        \* history: per slot, what the latest successful get / attribute access returned
  last,       \* history: the latest call on the wrapper and its outcome
  iterator,   \* IterableToFileAdapter.iterator
  length,     \* IterableToFileAdapter.length
  source,     \* history: the iterable the adapter was built with
  declared,   \* history: the size the adapter was built with
  out,        \* history: what the read() calls returned, in order
  lastSize,   \* history: the size argument of the latest read() call
  exhausted,  \* history: a read() has found the iterator exhausted
  adLen       \* history: the latest len() of the adapter: what it returned (-1: none yet), after how many reads

listVars == <<ctorArg, ids, items, got, last>>
adapterVars == <<iterator, length, source, declared, out, lastSize, exhausted, adLen>>
vars == <<ctorArg, ids, items, got, last,
          iterator, length, source, declared, out, lastSize, exhausted, adLen>>

\* ------------------------------------------------- IdentifierListAsItems
CtorArgs == {[kind |-> "list", ids |-> s] : s \in SeqsUpTo(Names, MaxKeys)}
            \cup {[kind |-> "single", id |-> x] : x \in Names}

\* __init__: a list is kept, anything else becomes a one-element list
CtorIds(arg) == IF arg.kind = "list" THEN arg.ids ELSE <<arg.id>>

\* __init__: self._items = [None] * len(self.ids)
CtorItems(ks) == [k \in 1..Len(ks) |-> None]

\* __len__
ListLength(ks) == Len(ks)

\* Python's sequence indexing: -n <= i < n, negative counts from the end
InRange(i, n) == (0 - n) <= i /\ i < n
Slot(i, n) == (IF i < 0 THEN i + n ELSE i) + 1

\* slice.indices(n): the clamped (start, stop, step) of a slice with step # 0
SliceIndices(sl, n) ==
  LET step == IF sl.step.none THEN 1 ELSE sl.step.v
      lower == IF step < 0 THEN -1 ELSE 0
      upper == IF step < 0 THEN n - 1 ELSE n
      Clamp(a) == IF a.v < 0 THEN Max(a.v + n, lower) ELSE Min(a.v, upper)
      start == IF sl.start.none THEN (IF step < 0 THEN upper ELSE lower) ELSE Clamp(sl.start)
      stop == IF sl.stop.none THEN (IF step < 0 THEN lower ELSE upper) ELSE Clamp(sl.stop)
  IN [start |-> start, stop |-> stop, step |-> step]

\* range(start, stop, step) as the sequence of slots it runs through
PyRange(r) ==
  LET cnt == IF r.step > 0
             THEN (IF r.stop > r.start THEN (r.stop - r.start + r.step - 1) \div r.step ELSE 0)
             ELSE (IF r.start > r.stop THEN (r.start - r.stop - r.step - 1) \div (0 - r.step) ELSE 0)
  IN [k \in 1..cnt |-> r.start + (k - 1) * r.step + 1]

RECURSIVE SortedAsc(_)
SortedAsc(s) ==
  IF s = <<>> THEN <<>>
  ELSE LET m == CHOOSE x \in {s[k] : k \in 1..Len(s)} : \A y \in {s[k] : k \in 1..Len(s)} : x <= y
       IN <<m>> \o SortedAsc(SelectSeq(s, LAMBDA z : z # m))

LoopIndicesAscending(sl, n) == SortedAsc(PyRange(SliceIndices(sl, n)))
LoopIndicesIgnoreStep(sl, n) == PyRange([SliceIndices(sl, n) EXCEPT !.step = IF @ < 0 THEN -1 ELSE 1])

\* __getitem__, the slots the for loop visits for a slice, in the loop's order
LoopIndices(sl, n) == PyRange(SliceIndices(sl, n))

\* __getitem__, the slots self._items[idx] selects for a slice, in list order
Selected(sl, n) == PyRange(SliceIndices(sl, n))

NeedsResolveAlways(its, s) == TRUE

\* __getitem__: if self._items[i] is None
NeedsResolve(its, s) == its[s] = None

\* __getitem__: the identifier handed to session.get_item
ResolverKey(ks, s) == ks[s]

\* __getitem__: self._items[i] = <what session.get_item returned>
StoreItem(its, s, v) == [its EXCEPT ![s] = v]

OnFailureMarkLoaded(st, s, e) == [st EXCEPT !.raised = e, !.items = StoreItem(@, s, "item1")]
OnFailureForgetAll(st, s, e) == [st EXCEPT !.raised = e, !.items = [k \in DOMAIN st.items |-> None]]

\* __getitem__: session.get_item raised; the assignment never happens and
\* the exception leaves the loop
OnFailure(st, s, e) == [st EXCEPT !.raised = e]

\* __getitem__, the for loop over `idxs` from loop state `st`: the set of
\* states it can end in, one per choice of what each session.get_item call does
RECURSIVE ResolveLoop(_, _, _)
ResolveLoop(st, ks, idxs) ==
  IF idxs = <<>> THEN {st}
  ELSE LET s == Head(idxs) IN
    IF ~NeedsResolve(st.items, s) THEN ResolveLoop(st, ks, Tail(idxs))
    ELSE UNION {
      LET called == [st EXCEPT !.calls = Append(@, s),
                               !.keys = Append(@, ResolverKey(ks, s)),
                               !.outs = Append(@, o)]
      IN IF o \in ErrKinds
         THEN {OnFailure(called, s, o)}
         ELSE ResolveLoop([called EXCEPT !.items = StoreItem(@, s, o)], ks, Tail(idxs))
      : o \in Outcomes}

LoopStart(its) == [items |-> its, calls |-> <<>>, keys |-> <<>>, outs |-> <<>>, raised |-> NoErr]

\* __getitem__: return self._items[idx], or the exception that left the loop
Finish(st, sel) ==
  [items |-> st.items, calls |-> st.calls, keys |-> st.keys, outs |-> st.outs,
   raised |-> st.raised, sel |-> sel,
   status |-> IF st.raised # NoErr THEN st.raised ELSE "ok",
   val |-> IF st.raised # NoErr THEN <<>> ELSE [k \in 1..Len(sel) |-> st.items[sel[k]]]]

Fail(its, kind) ==
  [items |-> its, calls |-> <<>>, keys |-> <<>>, outs |-> <<>>, raised |-> NoErr,
   sel |-> <<>>, status |-> kind, val |-> <<>>]

\* __getitem__ with an integer index
GetItemInt(its, ks, i) ==
  IF ~InRange(i, Len(ks)) THEN {Fail(its, "IndexError")}
  ELSE {Finish(st, <<Slot(i, Len(ks))>>) :
          st \in ResolveLoop(LoopStart(its), ks, <<Slot(i, Len(ks))>>)}

\* __getitem__ with a slice, up to the loop: slice.indices raises ValueError
\* on a zero step; otherwise the slots the loop visits and those returned
SliceCall(sl, n) ==
  IF ~sl.step.none /\ sl.step.v = 0
  THEN [zero |-> TRUE, loop |-> <<>>, sel |-> <<>>]
  ELSE [zero |-> FALSE, loop |-> LoopIndices(sl, n), sel |-> Selected(sl, n)]

\* the distinct slice calls on a list of n identifiers
SliceCalls == [n \in 0..MaxKeys |-> {SliceCall(sl, n) : sl \in Slices}]

\* __getitem__ with a slice
GetItemSlice(its, ks, c) ==
  IF c.zero THEN {Fail(its, "ValueError")}
  ELSE {Finish(st, c.sel) : st \in ResolveLoop(LoopStart(its), ks, c.loop)}

IndexOfLast(ks, name) == CHOOSE k \in 1..Len(ks) : ks[k] = name /\ \A j \in (k+1)..Len(ks) : ks[j] # name

\* list.index(name): the first position holding name (as a slot)
IndexOf(ks, name) == CHOOSE k \in 1..Len(ks) : ks[k] = name /\ \A j \in 1..(k-1) : ks[j] # name

\* __getattr__: except ValueError: raise AttributeError
ExceptClause(e) == IF e = "ValueError" THEN "AttributeError" ELSE e

\* __getattr__
GetAttr(its, ks, name) ==
  IF \A k \in 1..Len(ks) : ks[k] # name
  THEN {Fail(its, ExceptClause("ValueError"))}
  ELSE {[r EXCEPT !.status = ExceptClause(@)] : r \in GetItemInt(its, ks, IndexOf(ks, name) - 1)}

\* ------------------------------------------------------------ the calls
\* `last` records one call: op ("get": integer index, "slice", "name":
\* attribute access, "len"), the name asked for, sel (the slots the index
\* selects), calls / keys / outs (the slots session.get_item was called for,
\* the identifiers it was given and what it did, in call order), raised (the
\* error session.get_item raised, if any), status (what the caller sees:
\* "ok" or the error kind), val (the values returned: one for an integer or
\* a name, the list for a slice), retried (an integer get on the slot whose
\* resolution failed in the call just before), prev (what the previous
\* successful integer or name access to the slot returned), len.
FailedSlot(l) == IF l.raised # NoErr THEN l.calls[Len(l.calls)] ELSE 0

Record(op, name, r) ==
  /\ items' = r.items
  /\ last' = [op |-> op, name |-> name, sel |-> r.sel, calls |-> r.calls, keys |-> r.keys,
              outs |-> r.outs, raised |-> r.raised, status |-> r.status, val |-> r.val,
              retried |-> (op = "get" /\ last.raised # NoErr /\ r.sel = <<FailedSlot(last)>>),
              prev |-> IF op \in {"get", "name"} /\ r.sel # <<>> THEN got[r.sel[1]] ELSE NotYet,
              len |-> -1]
  /\ got' = IF op \in {"get", "name"} /\ r.status = "ok"
            THEN [got EXCEPT ![r.sel[1]] = r.val[1]]
            ELSE got
  /\ UNCHANGED <<ctorArg, ids>>

ListInit ==
  /\ ctorArg \in CtorArgs
  /\ ids = CtorIds(ctorArg)
  /\ items = CtorItems(ids)
  /\ got = [k \in 1..Len(ids) |-> NotYet]
  /\ last = [op |-> "init", name |-> "", sel |-> <<>>, calls |-> <<>>, keys |-> <<>>,
             outs |-> <<>>, raised |-> NoErr, status |-> "ok", val |-> <<>>, retried |-> FALSE,
             prev |-> NotYet, len |-> -1]

GetInt ==
  /\ \E i \in IntArgs : \E r \in GetItemInt(items, ids, i) : Record("get", "", r)
  /\ UNCHANGED adapterVars

GetSlice ==
  /\ \E c \in SliceCalls[Len(ids)] : \E r \in GetItemSlice(items, ids, c) : Record("slice", "", r)
  /\ UNCHANGED adapterVars

GetByName ==
  /\ \E name \in LookupNames : \E r \in GetAttr(items, ids, name) : Record("name", name, r)
  /\ UNCHANGED adapterVars

ListLen ==
  /\ last' = [op |-> "len", name |-> "", sel |-> <<>>, calls |-> <<>>, keys |-> <<>>,
              outs |-> <<>>, raised |-> NoErr, status |-> "ok", val |-> <<>>,
              retried |-> FALSE, prev |-> NotYet, len |-> ListLength(ids)]
  /\ UNCHANGED <<ctorArg, ids, items, got>>
  /\ UNCHANGED adapterVars

\* ------------------------------------------------- IterableToFileAdapter
Chunks == {<<>>, <<0>>, <<1>>, <<0, 1>>}     \* chunks a list source may hold
ChunkSizes == {-1, 0, 1, 2}                  \* chunk_size given to chunk_generator
ReadSizes == {-1, 0, 1}                      \* size given to read()

\* the iterables the adapter is built from: a list of chunks, or
\* chunk_generator(fp, chunk_size) over a file holding `data`
Sources == {[kind |-> "list", chunks |-> c] : c \in SeqsUpTo(Chunks, MaxChunks)}
           \cup {[kind |-> "gen", data |-> d, size |-> z] : d \in SeqsUpTo(Bytes, MaxData), z \in ChunkSizes}

\* fp.read(size) at offset pos: up to size bytes, all that is left if size < 0
FpRead(data, pos, size) ==
  IF size < 0 THEN SubSeq(data, pos + 1, Len(data))
  ELSE SubSeq(data, pos + 1, Min(pos + size, Len(data)))

\* __init__: self.iterator = iter(iterable)
Iter(src) ==
  IF src.kind = "list" THEN [kind |-> "list", rest |-> src.chunks]
  ELSE [kind |-> "gen", data |-> src.data, size |-> src.size, pos |-> 0, done |-> FALSE]

\* chunk_generator resumed once: read a chunk, end on an empty one, else yield it
ChunkGeneratorNext(it) ==
  IF it.done THEN [stop |-> TRUE, chunk |-> <<>>, it |-> it]
  ELSE LET chunk == FpRead(it.data, it.pos, it.size) IN
    IF chunk = <<>> THEN [stop |-> TRUE, chunk |-> <<>>, it |-> [it EXCEPT !.done = TRUE]]
    ELSE [stop |-> FALSE, chunk |-> chunk, it |-> [it EXCEPT !.pos = @ + Len(chunk)]]

\* the iterator protocol's next(): the next chunk, or StopIteration
IterNext(it) ==
  IF it.kind = "gen" THEN ChunkGeneratorNext(it)
  ELSE IF it.rest = <<>> THEN [stop |-> TRUE, chunk |-> <<>>, it |-> it]
  ELSE [stop |-> FALSE, chunk |-> Head(it.rest), it |-> [it EXCEPT !.rest = Tail(@)]]

AdapterReadSized(it, size) ==
  LET r == IterNext(it) IN
  [data |-> IF r.stop THEN <<>>
            ELSE IF size < 0 THEN r.chunk ELSE SubSeq(r.chunk, 1, Min(size, Len(r.chunk))),
   stop |-> r.stop, it |-> r.it]

\* read: next(self.iterator, b'')
AdapterRead(it, size) ==
  LET r == IterNext(it) IN
  [data |-> IF r.stop THEN <<>> ELSE r.chunk, stop |-> r.stop, it |-> r.it]

RECURSIVE Drain(_)
\* everything an iterator still yields, in order
Drain(it) ==
  LET r == IterNext(it) IN IF r.stop THEN <<>> ELSE <<r.chunk>> \o Drain(r.it)

RECURSIVE Flat(_)
Flat(cs) == IF cs = <<>> THEN <<>> ELSE Head(cs) \o Flat(Tail(cs))

AdapterLengthProduced(self) == Len(Flat(self.out))

\* __len__
AdapterLength(self) == self.length

AdapterInit ==
  /\ source \in Sources
  /\ declared \in 0..MaxDeclared
  /\ iterator = Iter(source)
  /\ length = declared
  /\ out = <<>> /\ lastSize = -1 /\ exhausted = FALSE /\ adLen = [ret |-> -1, reads |-> 0]

Read ==
  /\ Len(out) < MaxReads
  /\ \E size \in ReadSizes :
       LET r == AdapterRead(iterator, size) IN
       /\ iterator' = r.it
       /\ out' = Append(out, r.data)
       /\ lastSize' = size
       /\ exhausted' = (exhausted \/ r.stop)
  /\ UNCHANGED <<length, source, declared, adLen>>
  /\ UNCHANGED listVars

AdapterLen ==
  /\ adLen' = [ret |-> AdapterLength([iterator |-> iterator, length |-> length, out |-> out]),
               reads |-> Len(out)]
  /\ UNCHANGED <<iterator, length, source, declared, out, lastSize, exhausted>>
  /\ UNCHANGED listVars

AdapterIdle ==
  /\ iterator = [kind |-> "list", rest |-> <<>>]
  /\ length = 0 /\ declared = 0
  /\ source = [kind |-> "list", chunks |-> <<>>]
  /\ out = <<>> /\ lastSize = -1 /\ exhausted = FALSE /\ adLen = [ret |-> -1, reads |-> 0]

ListIdle ==
  /\ ctorArg = [kind |-> "list", ids |-> <<>>]
  /\ ids = <<>> /\ items = <<>> /\ got = <<>>
  /\ last = [op |-> "init", name |-> "", sel |-> <<>>, calls |-> <<>>, keys |-> <<>>,
             outs |-> <<>>, raised |-> NoErr, status |-> "ok", val |-> <<>>, retried |-> FALSE,
             prev |-> NotYet, len |-> -1]

Init == ListInit /\ AdapterIdle

Next == GetInt \/ GetSlice \/ GetByName \/ ListLen

Spec == Init /\ [][Next]_vars

AdapterStart == AdapterInit /\ ListIdle

AdapterNext == Read \/ AdapterLen

AdapterSpec == AdapterStart /\ [][AdapterNext]_vars

\* ------------------------------------------------------------ properties
Range(s) == {s[k] : k \in 1..Len(s)}
Slots == 1..Len(ids)
FirstPos(name) == CHOOSE k \in Slots : ids[k] = name /\ \A j \in 1..(k - 1) : ids[j] # name
PosIn(s, x) == CHOOSE k \in 1..Len(s) : s[k] = x
CtorCount == IF ctorArg.kind = "list" THEN Len(ctorArg.ids) ELSE 1
ValuesAt(its, sel) == [k \in 1..Len(sel) |-> its[sel[k]]]

\* C1, as stated: once an integer get (or attribute access) of a slot has
\* returned, whatever the value session.get_item gave, no later call invokes
\* session.get_item for that slot again, and a later integer get of the slot
\* returns that same value.
C1_MemoWhateverValue ==
  [][ /\ \A s \in Slots : got[s] # NotYet => s \notin Range(last'.calls)
      /\ (last'.op = "get" /\ last'.status = "ok" /\ got[last'.sel[1]] # NotYet)
           => last'.val = <<got[last'.sel[1]]>>
      /\ last'.op = "get" => Len(last'.calls) <= 1 ]_vars

\* C1, amended: the same for every value other than None: once an integer get
\* of a slot has returned an Item, no later call invokes session.get_item for
\* the slot, a later integer get returns the identical Item, and one integer
\* get invokes session.get_item at most once.
C1_MemoItem ==
  [][ /\ \A s \in Slots : got[s] \notin {NotYet, None} => s \notin Range(last'.calls)
      /\ (last'.op = "get" /\ last'.status = "ok" /\ got[last'.sel[1]] \notin {NotYet, None})
           => last'.val = <<got[last'.sel[1]]>>
      /\ last'.op = "get" => Len(last'.calls) <= 1 ]_vars

\* a second integer get of a slot returns the memoized Item without a call
C1_Witness ==
  /\ last.op = "get" /\ last.status = "ok"
  /\ last.prev = "item1" /\ last.calls = <<>> /\ last.val = <<"item1">>

C3_FailurePropagates ==
  last.raised # NoErr => last.status = last.raised

\* C4: a failed resolution leaves its slot unset, leaves every slot resolved
\* before the failing step (earlier calls, or earlier in the same loop) with
\* its value, and a later integer get of an unset slot calls session.get_item
\* again with that slot's identifier and, if it succeeds, stores and returns
\* what it gave.
C4_FailureLeavesNoTrace ==
  [][ /\ last'.raised # NoErr =>
           /\ items'[FailedSlot(last')] = None
           /\ \A s \in Slots : items[s] # None => items'[s] = items[s]
           /\ \A k \in 1..(Len(last'.calls) - 1) : items'[last'.calls[k]] = last'.outs[k]
      /\ (last'.op = "get" /\ last'.sel # <<>> /\ items[last'.sel[1]] = None) =>
           /\ last'.calls = last'.sel
           /\ last'.keys = <<ids[last'.sel[1]]>>
           /\ last'.raised = NoErr =>
                /\ last'.status = "ok"
                /\ items'[last'.sel[1]] = last'.outs[1]
                /\ last'.val = <<last'.outs[1]>> ]_vars

\* the slot whose resolution failed in the call before is got again, and loads
C4_Witness ==
  /\ last.retried /\ last.status = "ok"
  /\ last.calls = last.sel /\ last.val = <<"item1">>

\* C5, as stated: attribute access by a name held in ids goes to the first
\* slot holding the name and returns that slot's value, resolving and storing
\* it if the slot was unset; and once an integer get or attribute access of
\* the slot has returned, whatever the value, a later attribute access makes
\* no call and returns the same value.
C5_ByNameWhateverValue ==
  [][ (last'.op = "name" /\ last'.name \in Range(ids) /\ last'.status = "ok") =>
        LET s == FirstPos(last'.name) IN
        /\ last'.sel = <<s>>
        /\ last'.val = <<items'[s]>>
        /\ items[s] = None => (last'.calls = <<s>> /\ items'[s] = last'.outs[1])
        /\ items[s] # None => (last'.calls = <<>> /\ items'[s] = items[s])
        /\ got[s] # NotYet => (last'.calls = <<>> /\ last'.val = <<got[s]>>) ]_vars

\* C5, amended: the same, with the at-most-once part for every value other
\* than None: once an access of the slot has returned an Item, a later
\* attribute access makes no call and returns the identical Item.
C5_ByNameItem ==
  [][ (last'.op = "name" /\ last'.name \in Range(ids) /\ last'.status = "ok") =>
        LET s == FirstPos(last'.name) IN
        /\ last'.sel = <<s>>
        /\ last'.val = <<items'[s]>>
        /\ items[s] = None => (last'.calls = <<s>> /\ items'[s] = last'.outs[1])
        /\ items[s] # None => (last'.calls = <<>> /\ items'[s] = items[s])
        /\ got[s] \notin {NotYet, None} => (last'.calls = <<>> /\ last'.val = <<got[s]>>) ]_vars

\* attribute access to a name held twice, after its first slot was loaded
C5_Witness ==
  /\ last.op = "name" /\ last.status = "ok" /\ Len(ids) >= 2
  /\ ids[1] = last.name /\ ids[2] = last.name
  /\ last.prev = "item1" /\ last.calls = <<>> /\ last.val = <<"item1">>

\* C6: attribute access by a name not in ids fails with AttributeError without
\* a call to session.get_item and without touching a slot, and attribute
\* access ends in AttributeError in that case only.
C6_AttributeErrorOnlyUnknown ==
  [][ /\ (last'.op = "name" /\ last'.name \notin Range(ids)) =>
           (last'.status = "AttributeError" /\ last'.calls = <<>> /\ items' = items)
      /\ (last'.op = "name" /\ last'.status = "AttributeError") =>
           last'.name \notin Range(ids) ]_vars

\* C8: ids and _items have equal length, the number of identifiers the
\* wrapper was built with, which is what len() returns; and a slot holding an
\* Item keeps that Item.
C8_LengthAndSlotsStable ==
  /\ [](/\ Len(ids) = Len(items)
        /\ Len(ids) = CtorCount
        /\ last.op = "len" => last.len = CtorCount)
  /\ [][\A s \in 1..Len(items) : items[s] # None => (Len(items') >= s /\ items'[s] = items[s])]_vars

\* a slice get failed while another slot was already holding its Item
C8_Witness ==
  /\ last.op = "slice" /\ last.raised # NoErr
  /\ \E s \in Slots : items[s] = "item1" /\ s \notin Range(last.calls)

\* C9, as stated: within one slice get the calls to session.get_item go in
\* ascending slot order, and the returned list follows the selection order.
C9_CallsAscending ==
  last.op = "slice" =>
    /\ \A j, k \in 1..Len(last.calls) : j < k => last.calls[j] < last.calls[k]
    /\ last.status = "ok" => last.val = ValuesAt(items, last.sel)

\* C9, amended: within one slice get the calls to session.get_item go in the
\* slice's selection order (ascending for a positive step, descending for a
\* negative one), and the returned list follows the selection order.
C9_CallsInSelectionOrder ==
  last.op = "slice" =>
    /\ Range(last.calls) \subseteq Range(last.sel)
    /\ \A j, k \in 1..Len(last.calls) :
         j < k => PosIn(last.sel, last.calls[j]) < PosIn(last.sel, last.calls[k])
    /\ last.status = "ok" => last.val = ValuesAt(items, last.sel)

\* a slice with a negative step has resolved two slots, the higher one first
C9_Witness ==
  /\ last.op = "slice" /\ last.status = "ok" /\ Len(last.calls) >= 2
  /\ last.calls[1] > last.calls[2] /\ last.calls = last.sel

\* what the iterable the adapter was built with yields
Yields == Drain(Iter(source))

\* C7: the k-th read returns the k-th chunk the source yields, whatever the
\* size argument, each read moves the iterator on by one chunk, and every read
\* from the one that finds the source exhausted on returns the empty chunk.
C7_ReadSequence ==
  /\ source.kind = "list" => Yields = source.chunks
  /\ (source.kind = "gen" /\ source.size > 0) =>
        \A k \in 1..Len(Yields) :
          Yields[k] = SubSeq(source.data, (k - 1) * source.size + 1,
                             Min(k * source.size, Len(source.data)))
  /\ \A k \in 1..Len(out) : out[k] = IF k <= Len(Yields) THEN Yields[k] ELSE <<>>
  /\ Drain(iterator) = [k \in 1..(Len(Yields) - Min(Len(out), Len(Yields))) |-> Yields[Len(out) + k]]
  /\ exhausted <=> Len(out) > Len(Yields)

\* two chunks were read and two more reads found the source exhausted
C7_Witness ==
  /\ Len(Yields) = 2 /\ Len(out) = 4 /\ exhausted
  /\ out[1] # <<>> /\ out[2] # <<>> /\ out[1] # out[2] /\ lastSize = 0

\* C10: len() of the adapter is the declared size in every state, whatever has
\* been read.
C10_LengthIsDeclared ==
  /\ length = declared
  /\ adLen.ret \in {-1, declared}

\* len() after the source ran dry, with a declared size that is not the
\* number of bytes produced
C10_Witness ==
  /\ adLen.ret = declared /\ adLen.reads = Len(out) /\ exhausted
  /\ Len(Flat(out)) # declared /\ Len(out) >= 2

====
